---- MODULE Spec2Model ----
(***************************************************************************)
(* Model of the AP/HP room server (src/unnamed/part_002, lines 348-524):   *)
(* the process-wide room table, the socket.io room membership of each      *)
(* connection, and one action per socket event handler.                    *)
(*                                                                         *)
(* Payload strings are sequences of one-character strings, so that trim()  *)
(* and slice() are computed.  Socket ids are opaque: three connections,    *)
(* the least number with a first, a middle and a last place in the turn    *)
(* order.                                                                  *)
(*                                                                         *)
(* Every event carries a payload object.  An event sent without one throws *)
(* a TypeError in the destructuring of the handler's parameter (line 416   *)
(* and the like), before any state is read: it is outside the model.       *)
(***************************************************************************)
EXTENDS Integers, Sequences, FiniteSets, TLC

\* ---- bounds of the model ------------------------------------------------
\* board indexes sent by the clients are 0..MaxIndex
MaxIndex == 1
\* events handled in one run
MaxSteps == 6
\* events handled in one run of the specification with malformed payloads
InputSteps == 3

\* events handled in one run of the specification with two rooms
RoomSteps == 4

\* joins and disconnects handled in one run of the specification that goes on
\* for ever
LiveSteps == 4

\* ---- program constants --------------------------------------------------
Null == "null"
paMaxDefault == 4
phMaxDefault == 6
NameSlice == 24
MeditateGain == 2
ActionCost == 1

Sockets == {"s1", "s2", "s3"}

\* ---- JavaScript values arriving in event payloads -----------------------
\* A value is a record [t, s, n, half, a, keys]: t is its type, s the
\* characters of a string, n and half a number (n, or n + 0.5 when half),
\* n = 1 or 0 a boolean, a the elements of an array, keys the names of the
\* own properties of an object.  Payloads are decoded from JSON: a number is
\* finite, an object is a plain object and no property is a function.  The
\* numbers of the model are the integers and the halves below 2^31.  A
\* character is a one-character string; the vertical tab and the characters
\* outside ASCII are written by the name of their code point ("U+00A0").
Undefined ==
    [t |-> "undefined", s |-> <<>>, n |-> 0, half |-> FALSE, a |-> <<>>, keys |-> {}]
JsNull == [t |-> "null", s |-> <<>>, n |-> 0, half |-> FALSE, a |-> <<>>, keys |-> {}]
Str(chars) ==
    [t |-> "string", s |-> chars, n |-> 0, half |-> FALSE, a |-> <<>>, keys |-> {}]
Num(k) == [t |-> "number", s |-> <<>>, n |-> k, half |-> FALSE, a |-> <<>>, keys |-> {}]
\* the number k + 0.5
NumHalf(k) ==
    [t |-> "number", s |-> <<>>, n |-> k, half |-> TRUE, a |-> <<>>, keys |-> {}]
JsTrue == [t |-> "boolean", s |-> <<>>, n |-> 1, half |-> FALSE, a |-> <<>>, keys |-> {}]
JsFalse == [t |-> "boolean", s |-> <<>>, n |-> 0, half |-> FALSE, a |-> <<>>, keys |-> {}]
\* an array literal [e1, ..., ek]
Arr(elems) ==
    [t |-> "array", s |-> <<>>, n |-> 0, half |-> FALSE, a |-> elems, keys |-> {}]
\* an object literal with the own properties named in names
Obj(names) ==
    [t |-> "object", s |-> <<>>, n |-> 0, half |-> FALSE, a |-> <<>>, keys |-> names]

\* !v of JavaScript: undefined, null, false, "" and 0 are falsy; arrays and
\* objects, the empty ones too, are not
Falsy(v) ==
    \/ v.t \in {"undefined", "null"}
    \/ v.t = "string" /\ v.s = <<>>
    \/ v.t = "number" /\ v.n = 0 /\ ~v.half
    \/ v.t = "boolean" /\ v.n = 0

\* WhiteSpace and LineTerminator of ECMAScript: what trim() strips and
\* Number() skips
IsSpace(c) ==
    c \in {" ", "\t", "\n", "\r", "\f", "U+000B", "U+00A0", "U+1680",
           "U+2000", "U+2001", "U+2002", "U+2003", "U+2004", "U+2005",
           "U+2006", "U+2007", "U+2008", "U+2009", "U+200A", "U+2028",
           "U+2029", "U+202F", "U+205F", "U+3000", "U+FEFF"}

TrimStart(s) ==
    IF \A i \in 1..Len(s) : IsSpace(s[i]) THEN <<>>
    ELSE SubSeq(s, CHOOSE i \in 1..Len(s) :
                       ~IsSpace(s[i]) /\ \A j \in 1..(i - 1) : IsSpace(s[j]), Len(s))

TrimEnd(s) ==
    IF \A i \in 1..Len(s) : IsSpace(s[i]) THEN <<>>
    ELSE SubSeq(s, 1, CHOOSE i \in 1..Len(s) :
                          ~IsSpace(s[i]) /\ \A j \in (i + 1)..Len(s) : IsSpace(s[j]))

\* String.prototype.trim
Trim(s) == TrimEnd(TrimStart(s))

\* String.prototype.slice(0, k)
Slice0(s, k) == SubSeq(s, 1, IF Len(s) < k THEN Len(s) ELSE k)

\* ---- String(v) ------------------------------------------------------------
DigitChar(d) == <<"0", "1", "2", "3", "4", "5", "6", "7", "8", "9">>[d + 1]

\* the decimal digits of a natural number
RECURSIVE NatChars(_)
NatChars(k) == IF k < 10 THEN <<DigitChar(k)>> ELSE Append(NatChars(k \div 10), DigitChar(k % 10))

\* Number::toString of the payload numbers: k, or k + 0.5
NumberToString(v) ==
    IF ~v.half
    THEN IF v.n < 0 THEN <<"-">> \o NatChars(0 - v.n) ELSE NatChars(v.n)
    ELSE IF v.n < 0
         THEN <<"-">> \o NatChars(0 - v.n - 1) \o <<".", "5">>
         ELSE NatChars(v.n) \o <<".", "5">>

ObjectChars == <<"[", "o", "b", "j", "e", "c", "t", " ", "O", "b", "j", "e", "c", "t", "]">>

\* what String(v) is when the conversion throws "TypeError: Cannot convert
\* object to primitive value": no sequence of characters
TypeError == <<"TypeError">>

\* ToPrimitive throws on an object with an own property "toString": a
\* property decoded from JSON is not callable, and the inherited valueOf
\* answers the object itself.  An own "valueOf" alone does not matter, the
\* inherited toString answers.  An array converts its elements, null and
\* undefined left out.
RECURSIVE ToPrimitiveThrows(_)
ToPrimitiveThrows(v) ==
    \/ v.t = "object" /\ "toString" \in v.keys
    \/ /\ v.t = "array"
       /\ \E i \in 1..Len(v.a) :
             v.a[i].t \notin {"undefined", "null"} /\ ToPrimitiveThrows(v.a[i])

\* Array.prototype.join(","): null and undefined elements are empty
RECURSIVE String(_)
RECURSIVE Join(_)
Join(elems) ==
    IF elems = <<>> THEN <<>>
    ELSE LET first == IF Head(elems).t \in {"undefined", "null"} THEN <<>>
                      ELSE String(Head(elems))
         IN  IF Len(elems) = 1 THEN first
             ELSE first \o <<",">> \o Join(Tail(elems))

\* String(v): the characters, or TypeError
String(v) ==
    IF ToPrimitiveThrows(v) THEN TypeError
    ELSE CASE v.t = "string" -> v.s
           [] v.t = "undefined" -> <<"u", "n", "d", "e", "f", "i", "n", "e", "d">>
           [] v.t = "null" -> <<"n", "u", "l", "l">>
           [] v.t = "boolean" -> IF v.n = 1 THEN <<"t", "r", "u", "e">>
                                 ELSE <<"f", "a", "l", "s", "e">>
           [] v.t = "number" -> NumberToString(v)
           [] v.t = "array" -> Join(v.a)
           [] v.t = "object" -> ObjectChars

\* ---- natural numbers beyond 2^31 ------------------------------------------
\* A Big is a natural number as its limbs in base Base, the least significant
\* first and the most significant not 0; zero is <<>>.
Base == 1000000
LimbDigits == 6

\* s without its leading elements equal to z
StripLeading(s, z) ==
    IF \A i \in 1..Len(s) : s[i] = z THEN <<>>
    ELSE SubSeq(s, CHOOSE i \in 1..Len(s) :
                       s[i] # z /\ \A j \in 1..(i - 1) : s[j] = z, Len(s))

\* s without its trailing elements equal to z
StripTrailing(s, z) ==
    IF \A i \in 1..Len(s) : s[i] = z THEN <<>>
    ELSE SubSeq(s, 1, CHOOSE i \in 1..Len(s) :
                          s[i] # z /\ \A j \in (i + 1)..Len(s) : s[j] = z)

\* the digits of the radixes of StringNumericLiteral, in either case
DigitVal(c) ==
    CASE c = "0" -> 0 [] c = "1" -> 1 [] c = "2" -> 2 [] c = "3" -> 3
      [] c = "4" -> 4 [] c = "5" -> 5 [] c = "6" -> 6 [] c = "7" -> 7
      [] c = "8" -> 8 [] c = "9" -> 9
      [] c \in {"a", "A"} -> 10 [] c \in {"b", "B"} -> 11
      [] c \in {"c", "C"} -> 12 [] c \in {"d", "D"} -> 13
      [] c \in {"e", "E"} -> 14 [] c \in {"f", "F"} -> 15
      [] OTHER -> 16

IsDigit(c) == DigitVal(c) < 10

AllDigits(s, radix) == \A i \in 1..Len(s) : DigitVal(s[i]) < radix

\* the value of at most nine decimal digits
RECURSIVE DigitsVal(_)
DigitsVal(s) ==
    IF s = <<>> THEN 0 ELSE 10 * DigitsVal(SubSeq(s, 1, Len(s) - 1)) + DigitVal(s[Len(s)])

\* k zeros
Zeros(k) == [i \in 1..k |-> "0"]

\* the Big written by decimal digits, the most significant first
BigOfDigits(chars) ==
    LET n == Len(chars)
        from(j) == IF n - LimbDigits * j + 1 < 1 THEN 1 ELSE n - LimbDigits * j + 1
        limb(j) == DigitsVal(SubSeq(chars, from(j), n - LimbDigits * (j - 1)))
    IN  StripTrailing([j \in 1..((n + LimbDigits - 1) \div LimbDigits) |-> limb(j)], 0)

\* the decimal digits of a Big, the most significant first; zero is "0"
DigitsOfBig(a) ==
    IF a = <<>> THEN <<"0">>
    ELSE NatChars(a[Len(a)]) \o
         [i \in 1..(LimbDigits * (Len(a) - 1)) |->
            DigitChar((a[Len(a) - 1 - ((i - 1) \div LimbDigits)]
                          \div 10^(LimbDigits - 1 - ((i - 1) % LimbDigits))) % 10)]

\* the limbs from..to of a * m + c and the carry out of them, for m and c
\* below 2^31 / Base; the range is halved, low half first
RECURSIVE MulAddCarry(_, _, _, _, _)
MulAddCarry(a, m, c, from, to) ==
    IF from > to THEN [limbs |-> <<>>, carry |-> c]
    ELSE IF from = to
    THEN [limbs |-> <<(a[from] * m + c) % Base>>, carry |-> (a[from] * m + c) \div Base]
    ELSE LET mid == (from + to) \div 2
             low == MulAddCarry(a, m, c, from, mid)
             high == MulAddCarry(a, m, low.carry, mid + 1, to)
         IN  [limbs |-> low.limbs \o high.limbs, carry |-> high.carry]

\* a * m + c, for m >= 1
BigMulAdd(a, m, c) ==
    LET r == MulAddCarry(a, m, c, 1, Len(a))
    IN  IF r.carry = 0 THEN r.limbs ELSE Append(r.limbs, r.carry)

BigMulSmall(a, m) == IF m = 0 THEN <<>> ELSE BigMulAdd(a, m, 0)

\* -1, 0 or 1 as a is below, equal to or above b
BigCmp(a, b) ==
    IF Len(a) # Len(b) THEN (IF Len(a) < Len(b) THEN 0 - 1 ELSE 1)
    ELSE IF \A i \in 1..Len(a) : a[i] = b[i] THEN 0
    ELSE LET i == CHOOSE i \in 1..Len(a) :
                     a[i] # b[i] /\ \A j \in (i + 1)..Len(a) : a[j] = b[j]
         IN  IF a[i] < b[i] THEN 0 - 1 ELSE 1

\* the limbs from..to of a - b - w and the borrow out of them
RECURSIVE BigSubBorrow(_, _, _, _, _)
BigSubBorrow(a, b, w, from, to) ==
    IF from > to THEN [limbs |-> <<>>, borrow |-> w]
    ELSE IF from = to
    THEN LET y == (IF from <= Len(b) THEN b[from] ELSE 0) + w
         IN  IF a[from] >= y THEN [limbs |-> <<a[from] - y>>, borrow |-> 0]
             ELSE [limbs |-> <<a[from] + Base - y>>, borrow |-> 1]
    ELSE LET mid == (from + to) \div 2
             low == BigSubBorrow(a, b, w, from, mid)
             high == BigSubBorrow(a, b, low.borrow, mid + 1, to)
         IN  [limbs |-> low.limbs \o high.limbs, borrow |-> high.borrow]

\* a - b, for a >= b
BigSub(a, b) == StripTrailing(BigSubBorrow(a, b, 0, 1, Len(a)).limbs, 0)

\* a * p^k, for p^step below 2^31 / Base
RECURSIVE BigMulPow(_, _, _, _)
BigMulPow(a, p, step, k) ==
    IF a = <<>> THEN <<>>
    ELSE IF k <= step THEN BigMulSmall(a, p^k)
    ELSE BigMulPow(BigMulPow(a, p, step, k \div 2), p, step, k - (k \div 2))

BigMulPow2(a, k) == BigMulPow(a, 2, 10, k)
BigMulPow5(a, k) == BigMulPow(a, 5, 4, k)

\* the Big of a run of bits, the most significant first
RECURSIVE BitsVal(_)
BitsVal(bits) ==
    IF bits = <<>> THEN 0
    ELSE 2 * BitsVal(SubSeq(bits, 1, Len(bits) - 1)) + bits[Len(bits)]

\* ten bits at a time
RECURSIVE BigOfBits(_)
BigOfBits(bits) ==
    IF Len(bits) <= 10 THEN (IF BitsVal(bits) = 0 THEN <<>> ELSE <<BitsVal(bits)>>)
    ELSE BigMulAdd(BigOfBits(SubSeq(bits, 1, Len(bits) - 10)), 2^10,
                   BitsVal(SubSeq(bits, Len(bits) - 9, Len(bits))))

\* the bits hi..lo of the quotient of r by b, which is below 2^(hi + 1), the
\* most significant first, and the remainder; the range is halved, high
\* half first
RECURSIVE DivRange(_, _, _, _)
DivRange(r, b, hi, lo) ==
    IF hi < lo THEN [bits |-> <<>>, rem |-> r]
    ELSE IF hi = lo
    THEN LET t == BigMulPow2(b, hi)
             one == BigCmp(r, t) >= 0
         IN  [bits |-> <<IF one THEN 1 ELSE 0>>, rem |-> IF one THEN BigSub(r, t) ELSE r]
    ELSE LET mid == (hi + lo + 1) \div 2
             high == DivRange(r, b, hi, mid)
             low == DivRange(high.rem, b, mid - 1, lo)
         IN  [bits |-> high.bits \o low.bits, rem |-> low.rem]

\* the bits i..0 of the quotient of r by b, and the remainder
DivBits(r, b, i) == DivRange(r, b, i, 0)

\* ---- Number(v) ------------------------------------------------------------
\* A Number is a record [throws, nan, inf, neg, digits, d]: the conversion
\* threw; NaN; an infinity; or the value of sign neg and magnitude
\* digits / 10^d, digits being decimal digits without leading zeros and, when
\* d > 0, without trailing zeros.  Every IEEE 754 double has such an
\* expansion, and the record holds it in full.  -0 is the zero with neg.
NaN ==
    [throws |-> FALSE, nan |-> TRUE, inf |-> FALSE, neg |-> FALSE, digits |-> <<>>, d |-> 0]
Thrown ==
    [throws |-> TRUE, nan |-> FALSE, inf |-> FALSE, neg |-> FALSE, digits |-> <<>>, d |-> 0]
Infinite(neg) ==
    [throws |-> FALSE, nan |-> FALSE, inf |-> TRUE, neg |-> neg, digits |-> <<>>, d |-> 0]
Finite(neg, digits, d) ==
    [throws |-> FALSE, nan |-> FALSE, inf |-> FALSE, neg |-> neg, digits |-> digits, d |-> d]
Zero(neg) == Finite(neg, <<"0">>, 0)
\* the Number of an integer of the model
IntNumber(k) == IF k < 0 THEN Finite(TRUE, NatChars(0 - k), 0) ELSE Finite(FALSE, NatChars(k), 0)

\* the Number m * 2^e, for a Big m up to 2^53: Infinity from 2^1024 on, which
\* takes e >= 1024 - 53
DoubleOf(neg, m, e) ==
    IF m = <<>> THEN Zero(neg)
    ELSE IF e >= 0
    THEN LET v == BigMulPow2(m, e)
         IN  IF e >= 971 /\ BigCmp(v, BigMulPow2(<<1>>, 1024)) >= 0 THEN Infinite(neg)
             ELSE Finite(neg, DigitsOfBig(v), 0)
    ELSE LET raw == DigitsOfBig(BigMulPow5(m, 0 - e))
             zeros == Len(raw) - Len(StripTrailing(raw, "0"))
             z == IF zeros < 0 - e THEN zeros ELSE 0 - e
         IN  Finite(neg, SubSeq(raw, 1, Len(raw) - z), 0 - e - z)

\* the double nearest to a / b, ties to the even mantissa, for Bigs a and b
\* above 0 and log the integer with 2^log <= a / b < 2^(log + 1): a mantissa
\* of 53 bits, or of fewer below 2^-1022, where the exponent stays -1074
Nearest(neg, a, b, log) ==
    LET e == IF log - 52 < 0 - 1074 THEN 0 - 1074 ELSE log - 52
        num == IF e < 0 THEN BigMulPow2(a, 0 - e) ELSE a
        den == IF e > 0 THEN BigMulPow2(b, e) ELSE b
        q == DivBits(num, den, 52)
        twice == BigCmp(BigMulSmall(q.rem, 2), den)
        up == twice > 0 \/ (twice = 0 /\ q.bits[53] = 1)
    IN  DoubleOf(neg, BigMulAdd(BigOfBits(q.bits), 1, IF up THEN 1 ELSE 0), e)

\* 1-based place of the first element of s that is in cs, 0 when there is none
FirstIn(s, cs) ==
    IF \E i \in 1..Len(s) : s[i] \in cs
    THEN CHOOSE i \in 1..Len(s) : s[i] \in cs /\ \A j \in 1..(i - 1) : s[j] \notin cs
    ELSE 0

\* the exponent of an ExponentPart.  A message is at most 10^6 bytes
\* (maxHttpBufferSize, which line 355 leaves at its default), so the digits of
\* a literal move its exponent by less than 10^6, and an exponent of ten
\* digits counts as 10^9: beyond every finite value either way.
ExponentVal(digits) ==
    LET sig == StripLeading(digits, "0")
    IN  IF Len(sig) > 9 THEN 10^9 ELSE DigitsVal(sig)

\* StrUnsignedDecimalLiteral: digits, an optional fraction, an optional
\* exponent, with a digit before or after the point.  The result is whether u
\* is one, and its value as digits * 10^exp10, digits without leading or
\* trailing zeros.
ParseDecimal(u) ==
    LET ePos == FirstIn(u, {"e", "E"})
        mant == IF ePos = 0 THEN u ELSE SubSeq(u, 1, ePos - 1)
        expo == IF ePos = 0 THEN <<>> ELSE SubSeq(u, ePos + 1, Len(u))
        eSigned == expo # <<>> /\ Head(expo) \in {"+", "-"}
        eDigits == IF eSigned THEN Tail(expo) ELSE expo
        dot == FirstIn(mant, {"."})
        ip == IF dot = 0 THEN mant ELSE SubSeq(mant, 1, dot - 1)
        fp == IF dot = 0 THEN <<>> ELSE SubSeq(mant, dot + 1, Len(mant))
        ok == /\ AllDigits(ip, 10)
              /\ AllDigits(fp, 10)
              /\ (ip # <<>> \/ fp # <<>>)
              /\ (ePos # 0 => eDigits # <<>> /\ AllDigits(eDigits, 10))
        e == IF eSigned /\ Head(expo) = "-" THEN 0 - ExponentVal(eDigits)
             ELSE ExponentVal(eDigits)
        all == StripLeading(ip \o fp, "0")
        sig == StripTrailing(all, "0")
    IN  [ok |-> ok, digits |-> sig, exp10 |-> e - Len(fp) + (Len(all) - Len(sig))]

\* No double and no midpoint of two doubles has more than 767 significant
\* decimal digits, so the digits of a literal past this many decide nothing
\* but whether it lies above the number its first ones write.
SignificantDigits == 800

\* the Number nearest to digits * 10^exp10 (RoundMVResult), digits without
\* leading or trailing zeros.  With mag the place of the first digit, the
\* value is in [10^(mag - 1), 10^mag): Infinity above 10^309, zero below
\* 10^-324, and in between its binary logarithm is looked for around
\* mag * log2(10).
DecimalValue(neg, digits, exp10) ==
    LET mag == Len(digits) + exp10
        long == Len(digits) > SignificantDigits
        sig == IF long THEN SubSeq(digits, 1, SignificantDigits) \o <<"1">> ELSE digits
        x == IF long THEN exp10 + (Len(digits) - SignificantDigits - 1) ELSE exp10
        a == BigOfDigits(IF x > 0 THEN sig \o Zeros(x) ELSE sig)
        b == BigOfDigits(<<"1">> \o Zeros(IF x < 0 THEN 0 - x ELSE 0))
        atLeast(k) == IF k >= 0 THEN BigCmp(BigMulPow2(b, k), a) <= 0
                      ELSE BigCmp(b, BigMulPow2(a, 0 - k)) <= 0
        lo == (((mag - 1) * 33219) \div 10000) - 1
        hi == ((mag * 33219) \div 10000) + 1
        log == CHOOSE k \in lo..hi : atLeast(k) /\ ~atLeast(k + 1)
    IN  IF digits = <<>> THEN Zero(neg)
        ELSE IF mag > 309 THEN Infinite(neg)
        ELSE IF mag < 0 - 323 THEN Zero(neg)
        ELSE IF exp10 >= 0 /\ mag <= 15 THEN Finite(neg, digits \o Zeros(exp10), 0)
        ELSE Nearest(neg, a, b, log)

\* the bits of a run of digits of radix 2^width, most significant first
BitsOf(s, width) ==
    [i \in 1..(Len(s) * width) |->
        (DigitVal(s[((i - 1) \div width) + 1]) \div 2^(width - 1 - ((i - 1) % width))) % 2]

\* the Number nearest to a run of digits of radix 2^width: the first 53 bits,
\* rounded on the ones that follow, ties to even
RadixValue(s, width) ==
    LET bits == StripLeading(BitsOf(s, width), 0)
        n == Len(bits)
        e == IF n > 53 THEN n - 53 ELSE 0
        up == /\ e > 0
              /\ bits[54] = 1
              /\ (bits[53] = 1 \/ \E i \in 55..n : bits[i] = 1)
        m == BigMulAdd(BigOfBits(SubSeq(bits, 1, n - e)), 1, IF up THEN 1 ELSE 0)
    IN  IF n > 1024 THEN Infinite(FALSE) ELSE DoubleOf(FALSE, m, e)

InfinityChars == <<"I", "n", "f", "i", "n", "i", "t", "y">>

\* StringToNumber: white space is trimmed; the empty string is 0; "0x", "0o"
\* and "0b" (either case) start an unsigned hexadecimal, octal or binary
\* integer; otherwise an optional sign is followed by "Infinity" or by a
\* decimal literal; anything else is NaN.
NumberOfString(s) ==
    LET t == Trim(s)
        prefixed == Len(t) >= 2 /\ t[1] = "0" /\ t[2] \in {"x", "X", "o", "O", "b", "B"}
        width == IF t[2] \in {"x", "X"} THEN 4 ELSE IF t[2] \in {"o", "O"} THEN 3 ELSE 1
        body == SubSeq(t, 3, Len(t))
        signed == t # <<>> /\ Head(t) \in {"+", "-"}
        neg == t # <<>> /\ Head(t) = "-"
        u == IF signed THEN Tail(t) ELSE t
        lit == ParseDecimal(u)
    IN  IF t = <<>> THEN Zero(FALSE)
        ELSE IF prefixed
        THEN IF body # <<>> /\ AllDigits(body, 2^width) THEN RadixValue(body, width)
             ELSE NaN
        ELSE IF u = InfinityChars THEN Infinite(neg)
        ELSE IF lit.ok THEN DecimalValue(neg, lit.digits, lit.exp10)
        ELSE NaN

\* Number(v): undefined is NaN, null is 0, true is 1 and false 0, a string is
\* read by StringToNumber, an array or an object is first made a string,
\* which may throw
ToNumber(v) ==
    CASE v.t = "undefined" -> NaN
      [] v.t = "null" -> Zero(FALSE)
      [] v.t = "boolean" -> IntNumber(v.n)
      [] v.t = "number" ->
            IF ~v.half THEN IntNumber(v.n)
            ELSE IF v.n < 0
                 THEN Finite(TRUE, StripLeading(NatChars(0 - v.n - 1), "0") \o <<"5">>, 1)
                 ELSE Finite(FALSE, StripLeading(NatChars(v.n), "0") \o <<"5">>, 1)
      [] v.t = "string" -> NumberOfString(v.s)
      [] v.t \in {"array", "object"} ->
            IF ToPrimitiveThrows(v) THEN Thrown ELSE NumberOfString(String(v))

\* Number.isInteger(x)
IsInteger(x) == ~x.throws /\ ~x.nan /\ ~x.inf /\ x.d = 0

\* x < 0
Negative(x) == x.neg /\ (x.inf \/ x.digits # <<"0">>)

\* !Number.isInteger(idx) || idx < 0   (the negation: the index is usable);
\* a conversion that threw is caught and the event is dropped as well
ValidIndex(x) == IsInteger(x) /\ ~Negative(x)


\* ---- state ---------------------------------------------------------------
\* rooms      the room table (const rooms = new Map()), in insertion order;
\*            each room is [id, players, order, turnIndex, selections, pawns],
\*            players/selections/pawns being Maps kept in insertion order
\* sockRooms  socket.rooms of each connection: the room named by its own id,
\*            which socket.io puts it in, and the room it joined last
\* connected  the connections whose 'disconnect' has not fired
\* last       the event handled last and what it emitted ('state:update')
\* steps      number of events handled so far
VARIABLES rooms, sockRooms, connected, last, steps

vars == <<rooms, sockRooms, connected, last, steps>>

\* ---- Map helpers (insertion-ordered sequences of entries) ----------------
\* Array.prototype.indexOf, 0-based, -1 when absent
IndexOf(seq, x) ==
    IF \E i \in 1..Len(seq) : seq[i] = x
    THEN (CHOOSE i \in 1..Len(seq) : seq[i] = x /\ \A j \in 1..(i - 1) : seq[j] # x) - 1
    ELSE 0 - 1

\* Array.prototype.splice(idx, 1), idx 0-based
SpliceKeep(seq, idx) == seq

Splice(seq, idx) == SubSeq(seq, 1, idx) \o SubSeq(seq, idx + 2, Len(seq))

\* Map.prototype.delete on a Map keyed by field k
RECURSIVE RemoveKey(_, _, _)
RemoveKey(entries, k, id) ==
    IF entries = <<>> THEN <<>>
    ELSE IF Head(entries)[k] = id THEN RemoveKey(Tail(entries), k, id)
         ELSE <<Head(entries)>> \o RemoveKey(Tail(entries), k, id)

HasKey(entries, k, id) == \E i \in 1..Len(entries) : entries[i][k] = id

KeyPos(entries, k, id) == CHOOSE i \in 1..Len(entries) : entries[i][k] = id

\* Map.prototype.set: an existing key keeps its place, a new one goes last
SetEntry(entries, k, id, e) ==
    IF HasKey(entries, k, id)
    THEN [entries EXCEPT ![KeyPos(entries, k, id)] = e]
    ELSE Append(entries, e)

\* ---- the room table -------------------------------------------------------
HasRoom(rs, roomId) == \E i \in 1..Len(rs) : rs[i].id = roomId

RoomPos(rs, roomId) == CHOOSE i \in 1..Len(rs) : rs[i].id = roomId

NewRoom(roomId) ==
    [id |-> roomId, players |-> <<>>, order |-> <<>>, turnIndex |-> 0,
     selections |-> <<>>, pawns |-> <<>>]

getOrCreateRoom(rs, roomId) ==
    IF HasRoom(rs, roomId) THEN rs ELSE Append(rs, NewRoom(roomId))

\* rooms.get(roomId) with the raw payload value: only a string can be a key
\* of the table, whose keys are all strings
Lookup(rs, v) == v.t = "string" /\ HasRoom(rs, v.s)

HasPlayer(room, id) == HasKey(room.players, "id", id)

GetPlayer(room, id) == room.players[KeyPos(room.players, "id", id)]

currentId(room) ==
    IF Len(room.order) = 0 THEN Null
    ELSE room.order[(room.turnIndex % Len(room.order)) + 1]

startTurnSkip(room) == room

startTurnHeal(room) ==
    LET id == currentId(room)
    IN  IF id = Null THEN room
        ELSE IF HasPlayer(room, id)
             THEN [room EXCEPT !.players[KeyPos(room.players, "id", id)].pa =
                                    room.players[KeyPos(room.players, "id", id)].paMax,
                               !.players[KeyPos(room.players, "id", id)].ph =
                                    room.players[KeyPos(room.players, "id", id)].phMax]
             ELSE room

startTurn(room) ==
    LET id == currentId(room)
    IN  IF id = Null THEN room
        ELSE IF HasPlayer(room, id)
             THEN [room EXCEPT !.players[KeyPos(room.players, "id", id)].pa =
                                    room.players[KeyPos(room.players, "id", id)].paMax]
             ELSE room

\* Array.from(room.players.values()) puts the player objects of the room
\* themselves in the snapshot, while the board entries are copied: what a
\* snapshot made by the event before reads as when the table has become rs
SnapshotRead(snap, rs) ==
    [snap EXCEPT !.players =
        [i \in 1..Len(snap.players) |->
            IF /\ HasRoom(rs, snap.roomId)
               /\ HasPlayer(rs[RoomPos(rs, snap.roomId)], snap.players[i].id)
            THEN GetPlayer(rs[RoomPos(rs, snap.roomId)], snap.players[i].id)
            ELSE snap.players[i]]]

\* Array.prototype.sort((a, b) => a.seat - b.seat), which is stable
InsertBySeat(sorted, p) ==
    LET n == Cardinality({i \in 1..Len(sorted) : sorted[i].seat <= p.seat})
    IN  SubSeq(sorted, 1, n) \o <<p>> \o SubSeq(sorted, n + 1, Len(sorted))

RECURSIVE SortBySeat(_)
SortBySeat(ps) ==
    IF ps = <<>> THEN <<>>
    ELSE InsertBySeat(SortBySeat(SubSeq(ps, 1, Len(ps) - 1)), ps[Len(ps)])

publicState(room) ==
    [roomId |-> room.id,
     players |-> SortBySeat(room.players),
     currentPlayerId |-> currentId(room),
     board |-> [selections |-> room.selections, pawns |-> room.pawns]]

\* io.to(roomId).emit('state:update', publicState(room)): the emission and
\* the connections that are in the socket.io room at that moment
broadcast(rs, roomId, members) ==
    IF ~HasRoom(rs, roomId) THEN <<>>
    ELSE <<[roomId |-> roomId,
            to |-> {s \in DOMAIN members : roomId \in members[s]},
            state |-> publicState(rs[RoomPos(rs, roomId)])]>>

Event(op, s, roomId, index, name, casts) ==
    [op |-> op, sock |-> s, roomId |-> roomId, index |-> index, name |-> name,
     casts |-> casts]

\* socket.id as characters, the name of the connection's own room
IdChars(s) ==
    CASE s = "s1" -> <<"s", "1">>
      [] s = "s2" -> <<"s", "2">>
      [] s = "s3" -> <<"s", "3">>

Init ==
    /\ rooms = <<>>
    /\ sockRooms = [s \in Sockets |-> {IdChars(s)}]
    /\ connected = Sockets
    /\ last = Event("connection", Null, Undefined, Undefined, Undefined, <<>>)
    /\ steps = 0

\* an event is handled to completion; rejected events leave the state as is
Handled(e) ==
    /\ last' = e
    /\ steps' = steps + 1

Rejected(e) ==
    /\ Handled(e)
    /\ UNCHANGED <<rooms, sockRooms, connected>>

\* ---- socket.on('joinRoom') ------------------------------------------------
\* roomId and name arrive as strings, undefined or null; String(v) of a string
\* is the string itself
NewPlayerCharged(id, name, seat) ==
    [id |-> id, name |-> name, seat |-> seat, pa |-> paMaxDefault, ph |-> 0,
     paMax |-> paMaxDefault, phMax |-> phMaxDefault]

NewPlayer(id, name, seat) ==
    [id |-> id, name |-> name, seat |-> seat, pa |-> 0, ph |-> 0,
     paMax |-> paMaxDefault, phMax |-> phMaxDefault]

NextSeatFromZero(room) == Len(room.players)

\* const seat = room.players.size + 1
NextSeat(room) == Len(room.players) + 1

JoinPlayersAgain(room, id, name) ==
    LET r1 == [room EXCEPT !.players = Append(@, NewPlayer(id, name, NextSeat(room))),
                           !.order = Append(@, id)]
    IN  IF Len(r1.order) = 1 THEN startTurn([r1 EXCEPT !.turnIndex = 0]) ELSE r1

JoinPlayersNoStart(room, id, name) ==
    IF ~HasPlayer(room, id)
    THEN [room EXCEPT !.players = Append(@, NewPlayer(id, name, NextSeat(room))),
                      !.order = Append(@, id)]
    ELSE [room EXCEPT !.players[KeyPos(room.players, "id", id)].name = name]

JoinPlayers(room, id, name) ==
    IF ~HasPlayer(room, id)
    THEN LET seat == NextSeat(room)
             r1 == [room EXCEPT !.players = Append(@, NewPlayer(id, name, seat)),
                                !.order = Append(@, id)]
         IN  IF Len(r1.order) = 1 THEN startTurn([r1 EXCEPT !.turnIndex = 0]) ELSE r1
    ELSE [room EXCEPT !.players[KeyPos(room.players, "id", id)].name = name]

JoinRoom(s, roomIdV, nameV) ==
    /\ s \in connected
    /\ steps < MaxSteps
    /\ IF Falsy(roomIdV) \/ Falsy(nameV)
       THEN Rejected(Event("joinRoom", s, roomIdV, Undefined, nameV, <<>>))
       ELSE IF String(roomIdV) = TypeError \/ String(nameV) = TypeError
       THEN Rejected(Event("joinRoom", s, roomIdV, Undefined, nameV, <<>>))
       ELSE LET roomId == Trim(String(roomIdV))
                name == Slice0(Trim(String(nameV)), NameSlice)
                rs1 == getOrCreateRoom(rooms, roomId)
                members == [sockRooms EXCEPT ![s] = {IdChars(s), roomId}]
                k == RoomPos(rs1, roomId)
                rs2 == [rs1 EXCEPT ![k] = JoinPlayers(rs1[k], s, name)]
            IN  /\ rooms' = rs2
                /\ sockRooms' = members
                /\ UNCHANGED connected
                /\ Handled(Event("joinRoom", s, roomIdV, Undefined, nameV,
                                 broadcast(rs2, roomId, members)))

\* ---- socket.on('selectCell') ----------------------------------------------
PlaceMarkerCharged(room, s, n) ==
    LET r1 == [room EXCEPT !.selections =
                  SetEntry(@, "playerId", s, [playerId |-> s, index |-> n])]
    IN  IF HasPlayer(room, s)
        THEN [r1 EXCEPT !.players[KeyPos(room.players, "id", s)].pa = @ - ActionCost]
        ELSE r1

\* room.board.selections.set(socket.id, { index: idx })
PlaceMarker(room, s, n) ==
    [room EXCEPT !.selections = SetEntry(@, "playerId", s, [playerId |-> s, index |-> n])]

SelectCell(s, roomIdV, indexV) ==
    /\ s \in connected
    /\ steps < MaxSteps
    /\ LET idx == ToNumber(indexV)
           e(casts) == Event("selectCell", s, roomIdV, indexV, Undefined, casts)
       IN  IF ~Lookup(rooms, roomIdV) THEN Rejected(e(<<>>))
           ELSE IF ~ValidIndex(idx) THEN Rejected(e(<<>>))
           ELSE LET k == RoomPos(rooms, roomIdV.s)
                    rs2 == [rooms EXCEPT ![k] = PlaceMarker(rooms[k], s, idx)]
                IN  /\ rooms' = rs2
                    /\ UNCHANGED <<sockRooms, connected>>
                    /\ Handled(e(broadcast(rs2, roomIdV.s, sockRooms)))

\* ---- socket.on('setPawn') -------------------------------------------------
CanSpendAtZero(me) == ~(me.pa < 0)

\* if (me.pa <= 0) return
CanSpend(me) == ~(me.pa <= 0)

IsTurnOfAnyPlayer(room, s) == HasPlayer(room, s)

\* if (current !== socket.id) return; me = players.get(socket.id); if (!me) return
IsTurnOf(room, s) == currentId(room) = s /\ HasPlayer(room, s)

MovePawnAppend(room, s, n) ==
    [room EXCEPT !.players[KeyPos(room.players, "id", s)].pa = @ - ActionCost,
                 !.pawns = Append(@, [playerId |-> s, index |-> n])]

MovePawnFree(room, s, n) ==
    [room EXCEPT !.pawns = SetEntry(@, "playerId", s, [playerId |-> s, index |-> n])]

\* me.pa -= 1; room.board.pawns.set(socket.id, { index: idx })
MovePawn(room, s, n) ==
    [room EXCEPT !.players[KeyPos(room.players, "id", s)].pa = @ - ActionCost,
                 !.pawns = SetEntry(@, "playerId", s, [playerId |-> s, index |-> n])]

SetPawn(s, roomIdV, indexV) ==
    /\ s \in connected
    /\ steps < MaxSteps
    /\ LET idx == ToNumber(indexV)
           e(casts) == Event("setPawn", s, roomIdV, indexV, Undefined, casts)
       IN  IF ~Lookup(rooms, roomIdV) THEN Rejected(e(<<>>))
           ELSE IF ~ValidIndex(idx) THEN Rejected(e(<<>>))
           ELSE LET k == RoomPos(rooms, roomIdV.s)
                IN  IF ~IsTurnOf(rooms[k], s) THEN Rejected(e(<<>>))
                    ELSE IF ~CanSpend(GetPlayer(rooms[k], s)) THEN Rejected(e(<<>>))
                    ELSE LET rs2 == [rooms EXCEPT ![k] = MovePawn(rooms[k], s, idx)]
                         IN  /\ rooms' = rs2
                             /\ UNCHANGED <<sockRooms, connected>>
                             /\ Handled(e(broadcast(rs2, roomIdV.s, sockRooms)))

\* ---- socket.on('meditate') ------------------------------------------------
RestoreHealthNoClamp(me) == me.ph + MeditateGain

\* Math.min(me.ph + 2, me.phMax)
RestoreHealth(me) ==
    IF me.ph + MeditateGain < me.phMax THEN me.ph + MeditateGain ELSE me.phMax

DoMeditateFree(room, s) ==
    LET k == KeyPos(room.players, "id", s)
    IN  [room EXCEPT !.players[k].ph = RestoreHealth(room.players[k])]

\* me.pa -= 1; me.ph = Math.min(me.ph + 2, me.phMax)
DoMeditate(room, s) ==
    LET k == KeyPos(room.players, "id", s)
    IN  [room EXCEPT !.players[k].pa = @ - ActionCost,
                     !.players[k].ph = RestoreHealth(room.players[k])]

Meditate(s, roomIdV) ==
    /\ s \in connected
    /\ steps < MaxSteps
    /\ LET e(casts) == Event("meditate", s, roomIdV, Undefined, Undefined, casts)
       IN  IF ~Lookup(rooms, roomIdV) THEN Rejected(e(<<>>))
           ELSE LET k == RoomPos(rooms, roomIdV.s)
                IN  IF ~IsTurnOf(rooms[k], s) THEN Rejected(e(<<>>))
                    ELSE IF ~CanSpend(GetPlayer(rooms[k], s)) THEN Rejected(e(<<>>))
                    ELSE LET rs2 == [rooms EXCEPT ![k] = DoMeditate(rooms[k], s)]
                         IN  /\ rooms' = rs2
                             /\ UNCHANGED <<sockRooms, connected>>
                             /\ Handled(e(broadcast(rs2, roomIdV.s, sockRooms)))

\* ---- socket.on('endTurn') -------------------------------------------------
AdvanceStay(room) == startTurn(room)

AdvanceNoRecharge(room) ==
    [room EXCEPT !.turnIndex = (room.turnIndex + 1) % Len(room.order)]

AdvanceNoWrap(room) ==
    startTurn([room EXCEPT !.turnIndex = room.turnIndex + 1])

\* room.turnIndex = (room.turnIndex + 1) % room.order.length; startTurn(room)
Advance(room) ==
    startTurn([room EXCEPT !.turnIndex = (room.turnIndex + 1) % Len(room.order)])

MayEndTurnAnyPlayer(room, s) == HasPlayer(room, s)

\* if (current !== socket.id) return
MayEndTurn(room, s) == currentId(room) = s

EndTurn(s, roomIdV) ==
    /\ s \in connected
    /\ steps < MaxSteps
    /\ LET e(casts) == Event("endTurn", s, roomIdV, Undefined, Undefined, casts)
       IN  IF ~Lookup(rooms, roomIdV) THEN Rejected(e(<<>>))
           ELSE LET k == RoomPos(rooms, roomIdV.s)
                IN  IF Len(rooms[k].order) = 0 THEN Rejected(e(<<>>))
                    ELSE IF ~MayEndTurn(rooms[k], s) THEN Rejected(e(<<>>))
                    ELSE LET rs2 == [rooms EXCEPT ![k] = Advance(rooms[k])]
                         IN  /\ rooms' = rs2
                             /\ UNCHANGED <<sockRooms, connected>>
                             /\ Handled(e(broadcast(rs2, roomIdV.s, sockRooms)))

\* ---- socket.on('disconnect') ----------------------------------------------
ShiftTurnIndexNever(idx, turnIndex) == turnIndex

\* if (idx <= room.turnIndex && room.turnIndex > 0) room.turnIndex -= 1
ShiftTurnIndex(idx, turnIndex) ==
    IF idx <= turnIndex /\ turnIndex > 0 THEN turnIndex - 1 ELSE turnIndex

\* if (room.turnIndex >= room.order.length) room.turnIndex = 0
ClampTurnIndex(turnIndex, len) == IF turnIndex >= len THEN 0 ELSE turnIndex

LeaveRoomKeepEmpty(room, s) ==
    LET wasCurrent == currentId(room) = s
        r1 == [room EXCEPT !.players = RemoveKey(@, "id", s),
                           !.selections = RemoveKey(@, "playerId", s),
                           !.pawns = RemoveKey(@, "playerId", s)]
        idx == IndexOf(room.order, s)
    IN  IF idx = 0 - 1 THEN [room |-> r1, kept |-> TRUE]
        ELSE LET r2 == [r1 EXCEPT !.order = Splice(@, idx)]
                 r3 == [r2 EXCEPT !.turnIndex =
                           ClampTurnIndex(ShiftTurnIndex(idx, r2.turnIndex), Len(r2.order))]
             IN  [room |-> IF wasCurrent THEN startTurn(r3) ELSE r3, kept |-> TRUE]

\* the body of the loop for one room that has the player: the room afterwards,
\* whether it stays in the table, and whether broadcast(roomId) is reached
LeaveRoom(room, s) ==
    LET wasCurrent == currentId(room) = s
        r1 == [room EXCEPT !.players = RemoveKey(@, "id", s),
                           !.selections = RemoveKey(@, "playerId", s),
                           !.pawns = RemoveKey(@, "playerId", s)]
        idx == IndexOf(room.order, s)
    IN  IF idx = 0 - 1 THEN [room |-> r1, kept |-> TRUE]
        ELSE LET r2 == [r1 EXCEPT !.order = Splice(@, idx)]
             IN  IF Len(r2.order) = 0 THEN [room |-> r2, kept |-> FALSE]
                 ELSE LET r3 == [r2 EXCEPT !.turnIndex =
                                    ClampTurnIndex(ShiftTurnIndex(idx, r2.turnIndex),
                                                   Len(r2.order))]
                      IN  [room |-> IF wasCurrent THEN startTurn(r3) ELSE r3,
                           kept |-> TRUE]

\* for (const [roomId, room] of rooms.entries()): the table afterwards and
\* the emissions, in the order of the table
RECURSIVE LeaveAll(_, _, _)
LeaveAll(rs, s, members) ==
    IF rs = <<>> THEN [rooms |-> <<>>, casts |-> <<>>]
    ELSE LET room == Head(rs)
             rest == LeaveAll(Tail(rs), s, members)
         IN  IF ~HasPlayer(room, s)
             THEN [rooms |-> <<room>> \o rest.rooms, casts |-> rest.casts]
             ELSE LET out == LeaveRoom(room, s)
                  IN  IF out.kept
                      THEN [rooms |-> <<out.room>> \o rest.rooms,
                            casts |-> broadcast(<<out.room>>, room.id, members)
                                      \o rest.casts]
                      ELSE [rooms |-> rest.rooms, casts |-> rest.casts]

\* socket.io empties socket.rooms before it fires 'disconnect'
Disconnect(s) ==
    /\ s \in connected
    /\ steps < MaxSteps
    /\ LET members == [sockRooms EXCEPT ![s] = {}]
           out == LeaveAll(rooms, s, members)
       IN  /\ rooms' = out.rooms
           /\ sockRooms' = members
           /\ connected' = connected \ {s}
           /\ Handled(Event("disconnect", s, Undefined, Undefined, Undefined, out.casts))

\* ---- the earlier server variants (part_002:526-679, part_003) ---------------
\* room.order.length ? room.order[room.turnIndex % room.order.length] : null
currentIdEarlier(order, turnIndex) ==
    IF Len(order) = 0 THEN Null ELSE order[(turnIndex % Len(order)) + 1]

\* if (idx < room.turnIndex) room.turnIndex -= 1
ShiftTurnIndexEarlier(idx, turnIndex) ==
    IF idx < turnIndex THEN turnIndex - 1 ELSE turnIndex

\* the turn order and the pointer of a room that keeps a player, after the
\* 'disconnect' of s
LeaveOrderEarlier(order, turnIndex, s) ==
    LET idx == IndexOf(order, s)
    IN  IF idx = 0 - 1 THEN [order |-> order, turnIndex |-> turnIndex]
        ELSE [order |-> Splice(order, idx),
              turnIndex |-> ClampTurnIndex(ShiftTurnIndexEarlier(idx, turnIndex),
                                           Len(Splice(order, idx)))]

\* ---- the payloads the clients send ----------------------------------------
RoomA == <<"a">>

RoomArgs == {Str(RoomA)}
NameArgs == {Str(<<"n">>)}
IndexArgs == {Num(i) : i \in 0..MaxIndex}
MarkerArgs == {Num(0)}

\* any connection may send any event at any time
NextOver(socks, roomArgs, nameArgs, markerArgs, indexArgs) ==
    \/ \E s \in socks, r \in roomArgs, n \in nameArgs : JoinRoom(s, r, n)
    \/ \E s \in socks, r \in roomArgs, i \in markerArgs : SelectCell(s, r, i)
    \/ \E s \in socks, r \in roomArgs, i \in indexArgs : SetPawn(s, r, i)
    \/ \E s \in socks, r \in roomArgs : Meditate(s, r)
    \/ \E s \in socks, r \in roomArgs : EndTurn(s, r)
    \/ \E s \in socks : Disconnect(s)

Next == NextOver(Sockets, RoomArgs, NameArgs, MarkerArgs, IndexArgs)

Spec == Init /\ [][Next]_vars

\* ---- well-formed and malformed payloads, from two connections -------------
InputSockets == {"s1", "s2"}
JoinRoomInputs == {Str(RoomA), Str(<<" ">>), Str(<<>>), Undefined}
NameInputs == {Str(<<"n">>), Str(<<"\t", "m", " ">>), Str(<<" ">>), Str(<<>>), Undefined}
RoomInputs == {Str(RoomA), Str(<<>>), Undefined}
IndexInputs ==
    {Num(i) : i \in 0..MaxIndex}
        \cup {Num(0 - 1), NumHalf(0), Undefined, JsNull, Str(<<"x">>)}

NextInputs ==
    \/ \E s \in InputSockets, r \in JoinRoomInputs, n \in NameInputs :
          steps < InputSteps /\ JoinRoom(s, r, n)
    \/ \E s \in InputSockets, r \in RoomInputs, i \in IndexInputs :
          steps < InputSteps /\ SelectCell(s, r, i)
    \/ \E s \in InputSockets, r \in RoomInputs, i \in IndexInputs :
          steps < InputSteps /\ SetPawn(s, r, i)
    \/ \E s \in InputSockets, r \in RoomInputs :
          steps < InputSteps /\ Meditate(s, r)
    \/ \E s \in InputSockets, r \in RoomInputs :
          steps < InputSteps /\ EndTurn(s, r)
    \/ \E s \in InputSockets : steps < InputSteps /\ Disconnect(s)

SpecInputs == Init /\ [][NextInputs]_vars

\* ---- two rooms, two connections ------------------------------------------
RoomB == <<"b">>
TwoRooms == {Str(RoomA), Str(RoomB)}

NextRooms ==
    \/ \E s \in InputSockets, r \in TwoRooms, n \in NameArgs :
          steps < RoomSteps /\ JoinRoom(s, r, n)
    \/ \E s \in InputSockets, r \in TwoRooms, i \in MarkerArgs :
          steps < RoomSteps /\ SelectCell(s, r, i)
    \/ \E s \in InputSockets, r \in TwoRooms, i \in MarkerArgs :
          steps < RoomSteps /\ SetPawn(s, r, i)
    \/ \E s \in InputSockets, r \in TwoRooms :
          steps < RoomSteps /\ Meditate(s, r)
    \/ \E s \in InputSockets, r \in TwoRooms :
          steps < RoomSteps /\ EndTurn(s, r)
    \/ \E s \in InputSockets : steps < RoomSteps /\ Disconnect(s)

SpecRooms == Init /\ [][NextRooms]_vars

\* ---- a run that goes on for ever: joins and disconnects, then turns --------
\* socket.on('endTurn') for an endTurn that is accepted; the event is not
\* counted, so that the turn can go round for ever
EndTurnOn(s, roomIdV) ==
    /\ s \in connected
    /\ Lookup(rooms, roomIdV)
    /\ Len(rooms[RoomPos(rooms, roomIdV.s)].order) # 0
    /\ MayEndTurn(rooms[RoomPos(rooms, roomIdV.s)], s)
    /\ rooms' = [rooms EXCEPT ![RoomPos(rooms, roomIdV.s)] = Advance(@)]
    /\ last' = Event("endTurn", s, roomIdV, Undefined, Undefined,
                     broadcast(rooms', roomIdV.s, sockRooms))
    /\ UNCHANGED <<sockRooms, connected, steps>>

NextLive ==
    \/ \E s \in Sockets, r \in RoomArgs, n \in NameArgs :
          steps < LiveSteps /\ JoinRoom(s, r, n)
    \/ \E s \in Sockets, r \in RoomArgs, i \in MarkerArgs :
          steps < LiveSteps /\ SetPawn(s, r, i)
    \/ \E s \in Sockets : steps < LiveSteps /\ Disconnect(s)
    \/ \E s \in Sockets, r \in RoomArgs : EndTurnOn(s, r)

\* every participant sends endTurn when it is their turn, and the server
\* handles it
SpecLive ==
    /\ Init
    /\ [][NextLive]_vars
    /\ \A s \in Sockets : WF_vars(EndTurnOn(s, Str(RoomA)))

\* ---- vocabulary of the properties ------------------------------------------
RoomById(rs, roomId) == rs[RoomPos(rs, roomId)]

\* the step handles an event of kind op
Did(op) == steps' = steps + 1 /\ last'.op = op

\* the event handled last emitted a snapshot
Emitted(e) == e.casts # <<>>

\* the participant after id in the turn order, wrapping from the last to the first
Successor(order, id) == order[((IndexOf(order, id) + 1) % Len(order)) + 1]

\* the rooms other than roomId are the same in rs1 and rs2, in the same places
SameOtherRooms(rs1, rs2, roomId) ==
    /\ Len(rs1) = Len(rs2)
    /\ \A k \in 1..Len(rs1) : rs1[k].id # roomId => rs2[k] = rs1[k]

\* the entries of a Map, those of key id left out
Others(entries, k, id) == RemoveKey(entries, k, id)

\* C1: when the current participant disconnects from a room that keeps at
\* least one other participant, the participant that followed them in the turn
\* order (wrapping from the last place to the first) is current afterwards,
\* with actionPoints = actionPointsMax.
C1_DisconnectPassesTurnToNext ==
    [][\A k \in 1..Len(rooms) :
          LET room == rooms[k]
              cur == currentId(room)
          IN  (Did("disconnect") /\ last'.sock = cur /\ Len(room.order) > 1)
              => /\ HasRoom(rooms', room.id)
                 /\ LET after == RoomById(rooms', room.id)
                        next == Successor(room.order, cur)
                    IN  /\ currentId(after) = next
                        /\ GetPlayer(after, next).pa = GetPlayer(after, next).paMax]_vars

\* C2: in every room of the table the current participant is null only when
\* the room has no players, and is otherwise a player of the room; the same
\* holds of currentPlayerId in every snapshot emitted.
C2_CurrentIsPlayer ==
    /\ \A k \in 1..Len(rooms) :
          LET cur == currentId(rooms[k])
          IN  /\ cur = Null <=> Len(rooms[k].players) = 0
              /\ cur # Null => HasPlayer(rooms[k], cur)
    /\ \A c \in 1..Len(last.casts) :
          LET snap == last.casts[c].state
          IN  /\ snap.currentPlayerId = Null <=> Len(snap.players) = 0
              /\ snap.currentPlayerId # Null
                    => HasKey(snap.players, "id", snap.currentPlayerId)

\* three joined and the first, who was current, left: the room goes on with
\* the second as current participant
C2_Witness ==
    /\ last.op = "disconnect"
    /\ Emitted(last)
    /\ steps = 4
    /\ \E k \in 1..Len(rooms) :
          /\ Len(rooms[k].players) = 2
          /\ GetPlayer(rooms[k], currentId(rooms[k])).seat = 2
          /\ last.casts[1].state.currentPlayerId = currentId(rooms[k])

\* C3: a setPawn or meditate from a connection that is not the current
\* participant of the room it names changes no room (no actionPoints, no
\* healthPoints, no marker, no pawn, no turn pointer) and emits no snapshot.
C3_OffTurnActionRejected ==
    [][(/\ Did("setPawn") \/ Did("meditate")
        /\ Lookup(rooms, last'.roomId)
        /\ currentId(RoomById(rooms, last'.roomId.s)) # last'.sock)
       => /\ rooms' = rooms
          /\ sockRooms' = sockRooms
          /\ ~Emitted(last')]_vars

\* a player with action points left tried to move or meditate off turn
C3_Witness ==
    /\ last.op \in {"setPawn", "meditate"}
    /\ ~Emitted(last)
    /\ Lookup(rooms, last.roomId)
    /\ LET room == RoomById(rooms, last.roomId.s)
       IN  /\ HasPlayer(room, last.sock)
           /\ currentId(room) # last.sock
           /\ GetPlayer(room, last.sock).pa > 0
           /\ room.selections # <<>>

\* C4: a setPawn with a non-negative integer index from the current
\* participant with actionPoints >= 1 puts their pawn on the index (one entry,
\* replacing the previous one), takes exactly 1 actionPoint from them and
\* changes nothing else.
C4_SetPawnEffect ==
    [][(/\ Did("setPawn")
        /\ Lookup(rooms, last'.roomId)
        /\ ValidIndex(ToNumber(last'.index))
        /\ currentId(RoomById(rooms, last'.roomId.s)) = last'.sock
        /\ GetPlayer(RoomById(rooms, last'.roomId.s), last'.sock).pa >= 1)
       => LET id == last'.roomId.s
              s == last'.sock
              room == RoomById(rooms, id)
              after == RoomById(rooms', id)
              pos == KeyPos(room.players, "id", s)
          IN  /\ HasRoom(rooms', id)
              /\ SameOtherRooms(rooms, rooms', id)
              /\ after.players = [room.players EXCEPT ![pos].pa = room.players[pos].pa - 1]
              /\ Cardinality({i \in 1..Len(after.pawns) : after.pawns[i].playerId = s}) = 1
              /\ after.pawns[KeyPos(after.pawns, "playerId", s)].index
                    = ToNumber(last'.index)
              /\ Others(after.pawns, "playerId", s) = Others(room.pawns, "playerId", s)
              /\ after.selections = room.selections
              /\ after.order = room.order
              /\ currentId(after) = s
              /\ Emitted(last')]_vars

\* the current participant moved their pawn a second time in one turn, in a
\* room that has a marker and another player
C4_Witness ==
    /\ last.op = "setPawn"
    /\ Emitted(last)
    /\ LET room == RoomById(rooms, last.roomId.s)
       IN  /\ GetPlayer(room, last.sock).pa = paMaxDefault - 2
           /\ GetPlayer(room, last.sock).ph = 0
           /\ Len(room.players) > 1
           /\ room.selections # <<>>

\* C5: a meditate from the current participant with actionPoints >= 1 takes
\* exactly 1 actionPoint from them, sets their healthPoints to
\* min(healthPoints + 2, healthPointsMax) and changes nothing else.
C5_MeditateEffect ==
    [][(/\ Did("meditate")
        /\ Lookup(rooms, last'.roomId)
        /\ currentId(RoomById(rooms, last'.roomId.s)) = last'.sock
        /\ GetPlayer(RoomById(rooms, last'.roomId.s), last'.sock).pa >= 1)
       => LET id == last'.roomId.s
              s == last'.sock
              room == RoomById(rooms, id)
              after == RoomById(rooms', id)
              pos == KeyPos(room.players, "id", s)
              me == room.players[pos]
              ph2 == IF me.ph + 2 <= me.phMax THEN me.ph + 2 ELSE me.phMax
          IN  /\ HasRoom(rooms', id)
              /\ SameOtherRooms(rooms, rooms', id)
              /\ after = [room EXCEPT !.players[pos].pa = me.pa - 1,
                                      !.players[pos].ph = ph2]
              /\ currentId(after) = s
              /\ Emitted(last')]_vars

\* the current participant meditated a second time, in a room that has
\* another player and a marker
C5_Witness ==
    /\ last.op = "meditate"
    /\ Emitted(last)
    /\ LET room == RoomById(rooms, last.roomId.s)
           me == GetPlayer(room, last.sock)
       IN  /\ me.ph = 2 * MeditateGain
           /\ me.pa = paMaxDefault - 2
           /\ Len(room.players) > 1
           /\ room.selections # <<>>

\* C6: after an accepted endTurn the participant who is current has
\* actionPoints = actionPointsMax.
C6_EndTurnReplenishes ==
    (last.op = "endTurn" /\ Emitted(last))
    => LET room == RoomById(rooms, last.roomId.s)
           p == GetPlayer(room, currentId(room))
       IN  /\ p.pa = p.paMax
           /\ last.casts[1].state.currentPlayerId = p.id
           /\ \E i \in 1..Len(last.casts[1].state.players) :
                 /\ last.casts[1].state.players[i].id = p.id
                 /\ last.casts[1].state.players[i].pa = p.paMax

\* the turn came back to a participant who had spent action points (they
\* have a pawn on the board) and they are at the cap again
C6_Witness ==
    /\ last.op = "endTurn"
    /\ Emitted(last)
    /\ LET room == RoomById(rooms, last.roomId.s)
       IN  /\ HasKey(room.pawns, "playerId", currentId(room))
           /\ GetPlayer(room, currentId(room)).pa = paMaxDefault

\* C7: an accepted endTurn from the current participant at place i of the
\* turn order of n participants makes the participant at place (i + 1) mod n
\* current and leaves the turn order as it is.
C7_EndTurnAdvancesCyclically ==
    [][(Did("endTurn") /\ Emitted(last'))
       => LET room == RoomById(rooms, last'.roomId.s)
              after == RoomById(rooms', last'.roomId.s)
              i == IndexOf(room.order, currentId(room))
              n == Len(room.order)
          IN  /\ currentId(room) = last'.sock
              /\ after.order = room.order
              /\ currentId(after) = room.order[((i + 1) % n) + 1]
              /\ after.turnIndex = (i + 1) % n]_vars

\* the last of three participants ended their turn and the first is current
C7_Witness ==
    /\ last.op = "endTurn"
    /\ Emitted(last)
    /\ LET room == RoomById(rooms, last.roomId.s)
       IN  /\ Len(room.order) = 3
           /\ last.sock = room.order[3]
           /\ currentId(room) = room.order[1]

\* C8: an endTurn from a connection that is not the current participant of
\* the room it names changes no room and emits no snapshot.
C8_OffTurnEndTurnRejected ==
    [][(/\ Did("endTurn")
        /\ Lookup(rooms, last'.roomId)
        /\ currentId(RoomById(rooms, last'.roomId.s)) # last'.sock)
       => /\ rooms' = rooms
          /\ sockRooms' = sockRooms
          /\ ~Emitted(last')]_vars

\* a player of the room tried to end a turn that is not theirs
C8_Witness ==
    /\ last.op = "endTurn"
    /\ ~Emitted(last)
    /\ Lookup(rooms, last.roomId)
    /\ LET room == RoomById(rooms, last.roomId.s)
       IN  /\ HasPlayer(room, last.sock)
           /\ currentId(room) # last.sock
           /\ room.pawns # <<>>

\* C9: every player of every room has 0 <= actionPoints <= actionPointsMax,
\* in the table and in every snapshot emitted.
C9_ActionPointsInRange ==
    /\ \A k \in 1..Len(rooms) : \A i \in 1..Len(rooms[k].players) :
          LET p == rooms[k].players[i]
          IN  0 <= p.pa /\ p.pa <= p.paMax /\ p.paMax = paMaxDefault
    /\ \A c \in 1..Len(last.casts) : \A i \in 1..Len(last.casts[c].state.players) :
          LET p == last.casts[c].state.players[i]
          IN  0 <= p.pa /\ p.pa <= p.paMax

\* the current participant has spent every action point and asks for more
C9_Witness ==
    /\ last.op \in {"setPawn", "meditate"}
    /\ ~Emitted(last)
    /\ Lookup(rooms, last.roomId)
    /\ LET room == RoomById(rooms, last.roomId.s)
       IN  /\ currentId(room) = last.sock
           /\ GetPlayer(room, last.sock).pa = 0

\* C10: every player of every room has 0 <= healthPoints <= healthPointsMax,
\* in the table and in every snapshot emitted.
C10_HealthPointsInRange ==
    /\ \A k \in 1..Len(rooms) : \A i \in 1..Len(rooms[k].players) :
          LET p == rooms[k].players[i]
          IN  0 <= p.ph /\ p.ph <= p.phMax /\ p.phMax = phMaxDefault
    /\ \A c \in 1..Len(last.casts) : \A i \in 1..Len(last.casts[c].state.players) :
          LET p == last.casts[c].state.players[i]
          IN  0 <= p.ph /\ p.ph <= p.phMax

\* a fourth meditate in a row was accepted: healthPoints stays at the cap
C10_Witness ==
    /\ last.op = "meditate"
    /\ Emitted(last)
    /\ LET me == GetPlayer(RoomById(rooms, last.roomId.s), last.sock)
       IN  me.ph = me.phMax /\ me.pa = 0 /\ me.phMax = phMaxDefault

\* C11: a setPawn or meditate from the current participant whose actionPoints
\* is 0 changes no room (actionPoints stays 0, healthPoints and the pawn are
\* as before) and emits no snapshot.
C11_NoActionPointsRejected ==
    [][(/\ Did("setPawn") \/ Did("meditate")
        /\ Lookup(rooms, last'.roomId)
        /\ currentId(RoomById(rooms, last'.roomId.s)) = last'.sock
        /\ GetPlayer(RoomById(rooms, last'.roomId.s), last'.sock).pa = 0)
       => /\ rooms' = rooms
          /\ sockRooms' = sockRooms
          /\ ~Emitted(last')
          /\ GetPlayer(RoomById(rooms', last'.roomId.s), last'.sock).pa = 0]_vars

\* the current participant moved their pawn and meditated their action points
\* away, and the next move is refused
C11_Witness ==
    /\ last.op = "setPawn"
    /\ ~Emitted(last)
    /\ Lookup(rooms, last.roomId)
    /\ LET room == RoomById(rooms, last.roomId.s)
       IN  /\ currentId(room) = last.sock
           /\ GetPlayer(room, last.sock).pa = 0
           /\ GetPlayer(room, last.sock).ph > 0
           /\ HasKey(room.pawns, "playerId", last.sock)

\* the players of the room hold the seats 1, 2, ..., in the order they joined
SeatsInJoinOrder(room) ==
    /\ Len(room.order) = Len(room.players)
    /\ \A i \in 1..Len(room.players) :
          room.players[i].seat = i /\ room.players[i].id = room.order[i]

\* C12: joins by distinct participants with no leave in between get the seats
\* 1, 2, ..., N in join order: a newcomer to a room whose n players hold the
\* seats 1..n gets seat n + 1 and nobody's seat changes; and while nobody has
\* left, every room has its seats in join order.
C12_SeatsFollowJoinOrder ==
    [][/\ (/\ Did("joinRoom")
           /\ Emitted(last')
           /\ HasRoom(rooms, last'.casts[1].roomId)
                 => /\ ~HasPlayer(RoomById(rooms, last'.casts[1].roomId), last'.sock)
                    /\ SeatsInJoinOrder(RoomById(rooms, last'.casts[1].roomId)))
          => LET id == last'.casts[1].roomId
                 after == RoomById(rooms', id)
                 n == IF HasRoom(rooms, id) THEN Len(RoomById(rooms, id).players) ELSE 0
             IN  /\ Len(after.players) = n + 1
                 /\ after.players[n + 1].id = last'.sock
                 /\ after.players[n + 1].seat = n + 1
                 /\ SeatsInJoinOrder(after)
       /\ connected' = Sockets
             => \A k \in 1..Len(rooms') : SeatsInJoinOrder(rooms'[k])]_vars

\* three connections joined one after the other
C12_Witness ==
    /\ last.op = "joinRoom"
    /\ steps = 3
    /\ Len(rooms) = 1
    /\ Len(rooms[1].players) = 3
    /\ \A i \in 1..3 : rooms[1].players[i].seat = i
    /\ last.casts[1].state.players[3].id = last.sock

\* C13: when the only player of a room disconnects the room leaves the table;
\* a join that names an id absent from the table gets a new room whose only
\* player is the joiner, at seat 1, current, with turn pointer 0 and no marker
\* or pawn.
C13_LastLeaveDeletesRoom ==
    [][/\ \A k \in 1..Len(rooms) :
             (/\ Did("disconnect")
              /\ Len(rooms[k].players) = 1
              /\ HasPlayer(rooms[k], last'.sock))
             => ~HasRoom(rooms', rooms[k].id)
       /\ (/\ Did("joinRoom")
           /\ Emitted(last')
           /\ ~HasRoom(rooms, last'.casts[1].roomId))
          => LET after == RoomById(rooms', last'.casts[1].roomId)
             IN  /\ Len(after.players) = 1
                 /\ after.players[1].id = last'.sock
                 /\ after.players[1].seat = 1
                 /\ after.players[1].pa = paMaxDefault
                 /\ after.players[1].ph = 0
                 /\ after.order = <<last'.sock>>
                 /\ after.turnIndex = 0
                 /\ currentId(after) = last'.sock
                 /\ after.selections = <<>>
                 /\ after.pawns = <<>>]_vars

\* a connection joined when another had left and the room holds one player
\* at seat 1, who is current, and nothing on the board
C13_Witness ==
    /\ last.op = "joinRoom"
    /\ Emitted(last)
    /\ Cardinality(connected) = 2
    /\ steps >= 4
    /\ Len(rooms) = 1
    /\ Len(rooms[1].players) = 1
    /\ rooms[1].players[1].id = last.sock
    /\ rooms[1].players[1].seat = 1
    /\ rooms[1].selections = <<>>

\* C14: every room of the table has at least one player.
C14_NoEmptyRoom ==
    \A k \in 1..Len(rooms) :
        /\ Len(rooms[k].players) >= 1
        /\ Len(rooms[k].order) >= 1

\* a player left a room that goes on with the player who stays
C14_Witness ==
    /\ last.op = "disconnect"
    /\ Emitted(last)
    /\ Len(rooms) = 1
    /\ Len(rooms[1].players) = 1
    /\ rooms[1].players[1].id \in connected

\* C15: in a room with one participant every endTurn of theirs is accepted,
\* leaves them current and sets their actionPoints to actionPointsMax.
C15_SoloEndTurn ==
    [][(/\ Did("endTurn")
        /\ Lookup(rooms, last'.roomId)
        /\ RoomById(rooms, last'.roomId.s).order = <<last'.sock>>)
       => LET room == RoomById(rooms, last'.roomId.s)
              after == RoomById(rooms', last'.roomId.s)
          IN  /\ Emitted(last')
              /\ currentId(after) = last'.sock
              /\ last'.casts[1].state.currentPlayerId = last'.sock
              /\ after.players =
                    [room.players EXCEPT ![1].pa = room.players[1].paMax]
              /\ after.order = room.order]_vars

\* the only participant ended a second turn after spending in both
C15_Witness ==
    /\ last.op = "endTurn"
    /\ Emitted(last)
    /\ steps = 5
    /\ LET room == RoomById(rooms, last.roomId.s)
       IN  /\ Len(room.players) = 1
           /\ connected = Sockets
           /\ room.players[1].pa = paMaxDefault
           /\ room.players[1].ph = MeditateGain
           /\ room.pawns # <<>>

\* the payload value is a number that is an integer >= 0
IsBoardIndex(v) == v.t = "number" /\ ValidIndex(ToNumber(v))

\* the payload value is missing, empty or made of white space only
Blank(v) == v.t \in {"undefined", "null"} \/ Trim(String(v)) = <<>>

\* C16: a selectCell with a non-negative integer index from a player of the
\* room is accepted on and off their turn; it sets their marker to the index
\* (one entry) and changes nothing else: no actionPoints, no healthPoints, no
\* pawn, not the turn pointer, no other marker.
C16_SelectCellEffect ==
    [][(/\ Did("selectCell")
        /\ Lookup(rooms, last'.roomId)
        /\ IsBoardIndex(last'.index)
        /\ HasPlayer(RoomById(rooms, last'.roomId.s), last'.sock))
       => LET id == last'.roomId.s
              s == last'.sock
              room == RoomById(rooms, id)
              after == RoomById(rooms', id)
          IN  /\ Emitted(last')
              /\ HasRoom(rooms', id)
              /\ SameOtherRooms(rooms, rooms', id)
              /\ Cardinality({i \in 1..Len(after.selections) :
                                 after.selections[i].playerId = s}) = 1
              /\ after.selections[KeyPos(after.selections, "playerId", s)].index
                    = ToNumber(last'.index)
              /\ Others(after.selections, "playerId", s)
                    = Others(room.selections, "playerId", s)
              /\ after.players = room.players
              /\ after.pawns = room.pawns
              /\ after.order = room.order
              /\ after.turnIndex = room.turnIndex]_vars

\* the second player, whose turn it is not and who has no action points,
\* marked a cell
C16_Witness ==
    /\ last.op = "selectCell"
    /\ Emitted(last)
    /\ LET room == RoomById(rooms, last.roomId.s)
       IN  /\ HasPlayer(room, last.sock)
           /\ currentId(room) # last.sock
           /\ GetPlayer(room, last.sock).pa = 0
           /\ room.selections = <<[playerId |-> last.sock, index |-> IntNumber(MaxIndex)]>>

\* C17: a selectCell, setPawn, meditate or endTurn that names a room absent
\* from the table, or that comes from a connection that is not a player of
\* the room it names, changes no room and emits no snapshot.
C17_UnknownRoomOrPlayerRejected ==
    [][(/\ Did("selectCell") \/ Did("setPawn") \/ Did("meditate") \/ Did("endTurn")
        /\ \/ ~Lookup(rooms, last'.roomId)
           \/ ~HasPlayer(RoomById(rooms, last'.roomId.s), last'.sock))
       => /\ rooms' = rooms
          /\ ~Emitted(last')]_vars

\* C18: a joinRoom whose room id or name is missing, empty or made of white
\* space only creates no room, adds and renames no player and emits nothing.
C18_BlankJoinRejected ==
    [][(Did("joinRoom") /\ (Blank(last'.roomId) \/ Blank(last'.name)))
       => /\ rooms' = rooms
          /\ ~Emitted(last')]_vars

\* C19: a selectCell or setPawn whose index is not a non-negative integer
\* (negative, fractional, missing, null, not a number) changes no room and
\* emits no snapshot.
C19_BadIndexRejected ==
    [][(/\ Did("selectCell") \/ Did("setPawn")
        /\ ~IsBoardIndex(last'.index))
       => /\ rooms' = rooms
          /\ ~Emitted(last')]_vars

\* C20: an accepted joinRoom from a connection that is already a player of the
\* room changes that player's name and nothing else in the table: seats,
\* actionPoints, healthPoints, turn order, turn pointer, the number of players,
\* markers and pawns stay.
C20_RejoinRenamesOnly ==
    [][(/\ Did("joinRoom")
        /\ ~Falsy(last'.roomId)
        /\ ~Falsy(last'.name)
        /\ HasRoom(rooms, Trim(String(last'.roomId)))
        /\ HasPlayer(RoomById(rooms, Trim(String(last'.roomId))), last'.sock))
       => LET id == Trim(String(last'.roomId))
              room == RoomById(rooms, id)
              after == RoomById(rooms', id)
              pos == KeyPos(room.players, "id", last'.sock)
          IN  /\ HasRoom(rooms', id)
              /\ SameOtherRooms(rooms, rooms', id)
              /\ after = [room EXCEPT !.players[pos].name =
                                         Slice0(Trim(String(last'.name)), NameSlice)]
              /\ Emitted(last')]_vars

\* a player who had moved their pawn joined again under another name and
\* kept seat, action points and pawn
C20_Witness ==
    /\ last.op = "joinRoom"
    /\ Emitted(last)
    /\ last.name = Str(<<"\t", "m", " ">>)
    /\ LET room == RoomById(rooms, Trim(String(last.roomId)))
       IN  /\ GetPlayer(room, last.sock).name = <<"m">>
           /\ GetPlayer(room, last.sock).seat = 1
           /\ GetPlayer(room, last.sock).pa = paMaxDefault - 1
           /\ HasKey(room.pawns, "playerId", last.sock)

\* the connection has an entry of some kind in the room
Holds(room, s) ==
    \/ HasPlayer(room, s)
    \/ \E i \in 1..Len(room.order) : room.order[i] = s
    \/ HasKey(room.selections, "playerId", s)
    \/ HasKey(room.pawns, "playerId", s)

\* C21: once the disconnect of a participant has been handled no room of the
\* table holds them: they are in no room's players, in no turn order, and
\* have no marker and no pawn, whatever they sent before.
C21_DisconnectClearsParticipant ==
    \A s \in Sockets \ connected : \A k \in 1..Len(rooms) : ~Holds(rooms[k], s)

\* the ids of the players of the room
PlayerIds(room) == {room.players[i].id : i \in 1..Len(room.players)}

\* C22: every event that changes a room which is in the table afterwards
\* emits a snapshot of that room as it is after the event, and every snapshot
\* emitted goes to every connection that is a player of the room, also to
\* players who have since joined another room.
C22_SnapshotReachesEveryPlayer ==
    [][steps' = steps + 1
       => /\ \A k \in 1..Len(rooms') :
                (\/ ~HasRoom(rooms, rooms'[k].id)
                 \/ RoomById(rooms, rooms'[k].id) # rooms'[k])
                => \E c \in 1..Len(last'.casts) : last'.casts[c].roomId = rooms'[k].id
          /\ \A c \in 1..Len(last'.casts) :
                /\ HasRoom(rooms', last'.casts[c].roomId)
                /\ last'.casts[c].state
                      = publicState(RoomById(rooms', last'.casts[c].roomId))
                /\ PlayerIds(RoomById(rooms', last'.casts[c].roomId))
                      \subseteq last'.casts[c].to]_vars

\* the entries of players come in the list in the order of the players list
FollowsPlayers(entries, players) ==
    \A i, j \in 1..Len(entries) :
        (/\ i < j
         /\ HasKey(players, "id", entries[i].playerId)
         /\ HasKey(players, "id", entries[j].playerId))
        => KeyPos(players, "id", entries[i].playerId)
              < KeyPos(players, "id", entries[j].playerId)

\* C23: in every snapshot the players are in ascending seat order, and the
\* markers and the pawns of the board come in the order of the players list,
\* not in the order in which they were first written.
C23_SnapshotListsFollowPlayers ==
    \A c \in 1..Len(last.casts) :
        LET snap == last.casts[c].state
        IN  /\ \A i, j \in 1..Len(snap.players) :
                  i < j => snap.players[i].seat <= snap.players[j].seat
            /\ FollowsPlayers(snap.board.selections, snap.players)
            /\ FollowsPlayers(snap.board.pawns, snap.players)

\* C24: the healthPoints of a player changes only by an accepted meditate of
\* that player: no join, selectCell, setPawn, endTurn, turn start, nor any
\* event of another connection changes it.
C24_HealthChangesOnlyByOwnMeditate ==
    [][\A k \in 1..Len(rooms) : \A i \in 1..Len(rooms[k].players) :
          LET room == rooms[k]
              p == room.players[i]
          IN  (/\ HasRoom(rooms', room.id)
               /\ HasPlayer(RoomById(rooms', room.id), p.id)
               /\ GetPlayer(RoomById(rooms', room.id), p.id).ph # p.ph)
              => /\ Did("meditate")
                 /\ Emitted(last')
                 /\ last'.sock = p.id
                 /\ last'.roomId = Str(room.id)]_vars

\* another participant ended their turn and the turn came back to a player
\* who had meditated: action points at the cap, health points as they were
C24_Witness ==
    /\ last.op = "endTurn"
    /\ Emitted(last)
    /\ LET room == RoomById(rooms, last.roomId.s)
       IN  /\ currentId(room) # last.sock
           /\ GetPlayer(room, currentId(room)).ph = MeditateGain
           /\ GetPlayer(room, currentId(room)).pa = paMaxDefault

\* C25: events are handled one at a time and to completion, so of two setPawn
\* of the current participant who has 1 actionPoint the one handled first is
\* accepted and the other is rejected, whichever comes first; and every
\* snapshot emitted is the state of its room after the event.
C25_RacingSetPawnOneAccepted ==
    [][/\ (/\ Did("setPawn")
           /\ Lookup(rooms, last'.roomId)
           /\ IsBoardIndex(last'.index)
           /\ currentId(RoomById(rooms, last'.roomId.s)) = last'.sock
           /\ GetPlayer(RoomById(rooms, last'.roomId.s), last'.sock).pa = 1)
          => /\ Emitted(last')
             /\ GetPlayer(RoomById(rooms', last'.roomId.s), last'.sock).pa = 0
       /\ (/\ Did("setPawn")
           /\ last.op = "setPawn"
           /\ Emitted(last)
           /\ last.sock = last'.sock
           /\ last.roomId = last'.roomId
           /\ GetPlayer(RoomById(rooms, last.roomId.s), last.sock).pa = 0)
          => /\ rooms' = rooms
             /\ ~Emitted(last')
       /\ steps' = steps + 1
          => \A c \in 1..Len(last'.casts) :
                /\ HasRoom(rooms', last'.casts[c].roomId)
                /\ last'.casts[c].state
                      = publicState(RoomById(rooms', last'.casts[c].roomId))]_vars

\* the current participant spent the four action points on pawn moves and
\* the fifth move is refused
C25_Witness ==
    /\ last.op = "setPawn"
    /\ ~Emitted(last)
    /\ steps = MaxSteps
    /\ Lookup(rooms, last.roomId)
    /\ LET room == RoomById(rooms, last.roomId.s)
       IN  /\ currentId(room) = last.sock
           /\ Len(room.players) = 1
           /\ GetPlayer(room, last.sock).pa = 0
           /\ GetPlayer(room, last.sock).ph = 0
           /\ HasKey(room.pawns, "playerId", last.sock)

\* C26: when a player who is not the current participant disconnects, from a
\* place before or after the turn pointer, the current participant of the room
\* is the same afterwards and the players who stay are as they were (no
\* actionPoints replenished).
C26_OtherLeavesKeepsCurrent ==
    [][\A k \in 1..Len(rooms) :
          LET room == rooms[k]
              s == last'.sock
          IN  (Did("disconnect") /\ HasPlayer(room, s) /\ currentId(room) # s)
              => /\ HasRoom(rooms', room.id)
                 /\ currentId(RoomById(rooms', room.id)) = currentId(room)
                 /\ RoomById(rooms', room.id).players = RemoveKey(room.players, "id", s)
                 /\ RoomById(rooms', room.id).order
                       = Splice(room.order, IndexOf(room.order, s))]_vars

\* the first of the turn order left while the second, who had spent an
\* action point, was current: the second is still current with what they had
C26_Witness ==
    /\ last.op = "disconnect"
    /\ Emitted(last)
    /\ Len(rooms) = 1
    /\ Len(rooms[1].order) = 2
    /\ rooms[1].turnIndex = 0
    /\ rooms[1].players[1].seat = 2
    /\ GetPlayer(rooms[1], currentId(rooms[1])).pa = paMaxDefault - 1

\* C27: a participant who becomes current by a step (first join, endTurn,
\* disconnect of the current participant) has actionPoints = actionPointsMax
\* after it; and actionPoints goes up in no other way: only for the
\* participant who is current after an accepted endTurn or after the
\* disconnect of the current participant, and to the cap.
C27_ReplenishOnceAtTurnStart ==
    [][steps' = steps + 1
       => \A k \in 1..Len(rooms') :
             LET after == rooms'[k]
                 cur == currentId(after)
                 had == HasRoom(rooms, after.id)
                 before == RoomById(rooms, after.id)
             IN  /\ (cur # Null /\ (~had \/ currentId(before) # cur))
                    => GetPlayer(after, cur).pa = GetPlayer(after, cur).paMax
                 /\ \A i \in 1..Len(after.players) :
                       LET p == after.players[i]
                       IN  IF had /\ HasPlayer(before, p.id)
                           THEN p.pa > GetPlayer(before, p.id).pa
                                => /\ p.id = cur
                                   /\ p.pa = p.paMax
                                   /\ Did("endTurn") \/ Did("disconnect")
                                   /\ last'.sock = currentId(before)
                           ELSE p.pa > 0
                                => /\ Did("joinRoom")
                                   /\ after.order = <<p.id>>
                                   /\ p.pa = p.paMax]_vars

\* the current participant left and the turn went to a player who had moved
\* their pawn in an earlier turn: they are at the cap again
C27_Witness ==
    /\ last.op = "disconnect"
    /\ Emitted(last)
    /\ Len(rooms) = 1
    /\ HasKey(rooms[1].pawns, "playerId", currentId(rooms[1]))
    /\ GetPlayer(rooms[1], currentId(rooms[1])).pa = paMaxDefault

\* C28: the first to join a room that is not in the table becomes current
\* with turn pointer 0, actionPoints = 4 and healthPoints 0; a later newcomer
\* goes last in the turn order with actionPoints 0 and healthPoints 0, and the
\* current participant and the players already there are as before.
C28_JoinEffect ==
    [][(Did("joinRoom") /\ Emitted(last'))
       => LET id == last'.casts[1].roomId
              s == last'.sock
              after == RoomById(rooms', id)
          IN  IF ~HasRoom(rooms, id)
              THEN /\ currentId(after) = s
                   /\ after.turnIndex = 0
                   /\ GetPlayer(after, s).pa = 4
                   /\ GetPlayer(after, s).paMax = 4
                   /\ GetPlayer(after, s).ph = 0
              ELSE LET room == RoomById(rooms, id)
                       n == Len(room.players)
                   IN  ~HasPlayer(room, s)
                       => /\ after.order = Append(room.order, s)
                          /\ Len(after.players) = n + 1
                          /\ SubSeq(after.players, 1, n) = room.players
                          /\ after.players[n + 1].id = s
                          /\ after.players[n + 1].pa = 0
                          /\ after.players[n + 1].ph = 0
                          /\ currentId(after) = currentId(room)
                          /\ after.turnIndex = room.turnIndex]_vars

\* a second player joined a room whose first player had moved and meditated
C28_Witness ==
    /\ last.op = "joinRoom"
    /\ Emitted(last)
    /\ Len(rooms) = 1
    /\ Len(rooms[1].players) = 2
    /\ rooms[1].players[2].id = last.sock
    /\ rooms[1].players[2].pa = 0
    /\ rooms[1].players[1].pa = paMaxDefault - 2
    /\ rooms[1].players[1].ph = MeditateGain
    /\ currentId(rooms[1]) = rooms[1].players[1].id

\* C29: in every room of the table the turn order is the list of the ids of
\* the room's players, each once, in the order in which they joined.
C29_OrderIsPlayersInJoinOrder ==
    \A k \in 1..Len(rooms) :
        /\ Len(rooms[k].order) = Len(rooms[k].players)
        /\ \A i \in 1..Len(rooms[k].order) : rooms[k].order[i] = rooms[k].players[i].id
        /\ \A i, j \in 1..Len(rooms[k].order) :
              i # j => rooms[k].order[i] # rooms[k].order[j]

\* the second of three players left: the first and the third stay, in order
C29_Witness ==
    /\ last.op = "disconnect"
    /\ Len(rooms) = 1
    /\ Len(rooms[1].order) = 2
    /\ rooms[1].players[1].seat = 1
    /\ rooms[1].players[2].seat = 3
    /\ rooms[1].order = <<rooms[1].players[1].id, rooms[1].players[2].id>>

\* C30: in every room of the table 0 <= turnIndex < order.length, so that
\* currentId reads order[turnIndex].
C30_TurnIndexInRange ==
    \A k \in 1..Len(rooms) :
        /\ 0 <= rooms[k].turnIndex
        /\ rooms[k].turnIndex < Len(rooms[k].order)
        /\ currentId(rooms[k]) = rooms[k].order[rooms[k].turnIndex + 1]

\* the last of three was current and the first left: the pointer moved down
\* with the order and is at its last place
C30_Witness ==
    /\ last.op = "disconnect"
    /\ Emitted(last)
    /\ Len(rooms) = 1
    /\ Len(rooms[1].order) = 2
    /\ rooms[1].turnIndex = 1
    /\ rooms[1].players[1].seat = 2

\* C31: no two players of a room have the same seat, also after a player
\* has left and another has joined.
C31_SeatsDistinct ==
    \A k \in 1..Len(rooms) : \A i, j \in 1..Len(rooms[k].players) :
        i # j => rooms[k].players[i].seat # rooms[k].players[j].seat

\* C32: a connection is a player of at most one room, and is in the turn
\* order of at most one room: joining another room ends the stay in the first.
C32_PlayerOfOneRoom ==
    \A s \in Sockets : \A k, l \in 1..Len(rooms) :
        (/\ HasPlayer(rooms[k], s) \/ IndexOf(rooms[k].order, s) # 0 - 1
         /\ HasPlayer(rooms[l], s) \/ IndexOf(rooms[l].order, s) # 0 - 1)
        => k = l

\* every playerId of the entries is the id of one of the players
EntriesOfPlayers(entries, players) ==
    \A i \in 1..Len(entries) : HasKey(players, "id", entries[i].playerId)

\* C33: in every room every id that has a marker or a pawn is the id of a
\* player of the room, and every playerId of the board of a snapshot is in
\* the players of that snapshot.
C33_BoardEntriesArePlayers ==
    /\ \A k \in 1..Len(rooms) :
          /\ EntriesOfPlayers(rooms[k].selections, rooms[k].players)
          /\ EntriesOfPlayers(rooms[k].pawns, rooms[k].players)
    /\ \A c \in 1..Len(last.casts) :
          LET snap == last.casts[c].state
          IN  /\ EntriesOfPlayers(snap.board.selections, snap.players)
              /\ EntriesOfPlayers(snap.board.pawns, snap.players)

\* what the current participant has paid since their turn started with
\* actionPoints = actionPointsMax
SpentThisTurn(room) ==
    GetPlayer(room, currentId(room)).paMax - GetPlayer(room, currentId(room)).pa

\* C34: between two turn starts of a room (first join, accepted endTurn,
\* disconnect of the current participant) at most actionPointsMax (4) setPawn
\* and meditate are accepted, all of them from the participant who is current:
\* the count of the turn is 0 at a turn start, goes up by one with every
\* accepted setPawn or meditate, which comes from the current participant,
\* stays with every other event, and never passes 4.
C34_ChargeableActionsPerTurn ==
    [][steps' = steps + 1
       => \A k \in 1..Len(rooms') :
             LET after == rooms'[k]
                 had == HasRoom(rooms, after.id)
                 before == RoomById(rooms, after.id)
                 charged == /\ Did("setPawn") \/ Did("meditate")
                            /\ Emitted(last')
                            /\ last'.roomId = Str(after.id)
                 turnStart == \/ ~had
                              \/ /\ Did("endTurn")
                                 /\ Emitted(last')
                                 /\ last'.roomId = Str(after.id)
                              \/ /\ Did("disconnect")
                                 /\ last'.sock = currentId(before)
             IN  /\ 0 <= SpentThisTurn(after)
                 /\ SpentThisTurn(after) <= 4
                 /\ turnStart => SpentThisTurn(after) = 0
                 /\ (~turnStart /\ charged)
                    => /\ last'.sock = currentId(before)
                       /\ currentId(after) = currentId(before)
                       /\ SpentThisTurn(after) = SpentThisTurn(before) + 1
                 /\ (~turnStart /\ ~charged)
                    => /\ currentId(after) = currentId(before)
                       /\ SpentThisTurn(after) = SpentThisTurn(before)]_vars

\* the current participant made two pawn moves and two meditations in one
\* turn and has nothing left
C34_Witness ==
    /\ last.op = "meditate"
    /\ Emitted(last)
    /\ LET room == RoomById(rooms, last.roomId.s)
       IN  /\ SpentThisTurn(room) = paMaxDefault
           /\ GetPlayer(room, last.sock).ph = 2 * MeditateGain
           /\ HasKey(room.pawns, "playerId", last.sock)

\* the connection is a player of room "a"
InRoomA(s) == HasRoom(rooms, RoomA) /\ HasPlayer(RoomById(rooms, RoomA), s)

\* it is the turn of the connection in room "a"
CurrentInRoomA(s) == HasRoom(rooms, RoomA) /\ currentId(RoomById(rooms, RoomA)) = s

\* C35: when every participant ends their turn whenever they are current,
\* every participant who stays in the room is current again and again,
\* whatever joins and disconnects came before; and in every state the current
\* participant of a room is a connected player, who may end the turn.
C35_EveryoneGetsTheTurn ==
    /\ \A s \in Sockets : <>[]InRoomA(s) => []<>CurrentInRoomA(s)
    /\ [](\A k \in 1..Len(rooms) :
             /\ currentId(rooms[k]) \in connected
             /\ HasPlayer(rooms[k], currentId(rooms[k])))

\* three joined, the current participant vanished, and the turn has gone
\* round the two who stay, back to the first of them
C35_Witness ==
    /\ last.op = "endTurn"
    /\ steps = LiveSteps
    /\ Cardinality(connected) = 2
    /\ Len(rooms) = 1
    /\ Len(rooms[1].order) = 2
    /\ last.sock = rooms[1].order[2]
    /\ currentId(rooms[1]) = rooms[1].order[1]

\* C36: a snapshot that was emitted is not changed afterwards: the players
\* with their actionPoints and healthPoints, the markers and the pawns in it
\* read the same after the next event, whatever that event does to the room.
C36_SnapshotNeverChanges ==
    [][\A c \in 1..Len(last.casts) :
          SnapshotRead(last.casts[c].state, rooms') = last.casts[c].state]_vars

\* C37: the server variants agree on the turn: after the disconnect of a
\* player from a room that goes on, the current participant under the pointer
\* rule of this server (idx <= turnIndex and turnIndex > 0) is the one under
\* the rule of the earlier variants (idx < turnIndex).  Joins and endTurn
\* move the order and the pointer alike in all variants, so runs of the
\* variants on the same events part ways at a disconnect or never.
C37_VariantsAgreeOnTurn ==
    [][\A k \in 1..Len(rooms) :
          LET room == rooms[k]
              s == last'.sock
              earlier == LeaveOrderEarlier(room.order, room.turnIndex, s)
          IN  (Did("disconnect") /\ HasPlayer(room, s) /\ Len(room.order) > 1)
              => /\ HasRoom(rooms', room.id)
                 /\ RoomById(rooms', room.id).order = earlier.order
                 /\ currentId(RoomById(rooms', room.id))
                       = currentIdEarlier(earlier.order, earlier.turnIndex)]_vars

====
